---------------------------- MODULE Spec2Model ----------------------------
(***************************************************************************)
(* Similarity Score Analyzer: src/utils.py (preprocess_text, get_model,    *)
(* calculate_similarity, process_excel_file, validate_file_upload) and the *)
(* upload flow of src/main.py (main).                                      *)
(*                                                                         *)
(* Text is a sequence of one-character strings.  A score is the numerator  *)
(* of a fraction over One: 0 is 0.0 and One is 1.0.  An embedding is an    *)
(* integer vector of length Norm, so the cosine of two embeddings is their *)
(* dot product over Norm*Norm.                                             *)
(***************************************************************************)
EXTENDS Integers, Sequences, FiniteSets

\* ------------------------------------------------------------------ bounds
MaxRows == 2      \* rows of a dataset
MaxCalls == 3     \* get_model() calls in a sequence of computations
MaxLen == 5       \* characters of a text given to preprocess_text
Norm == 5         \* length of every embedding vector

\* -------------------------------------------------------------------- text
Whitespace == {" ", "\t"}
Digit == {"0", "1", "2", "3", "4", "5", "6", "7", "8", "9"}
Lower == {"a", "b", "x", "l", "s", "c", "v", "t"}
Upper == {"A", "B", "X", "L", "S"}

isspace(c) == c \in Whitespace
isalnum(c) == c \in Digit \cup Lower \cup Upper

\* str.lower() of one character
lowerChar(c) ==
  CASE c = "A" -> "a"
    [] c = "B" -> "b"
    [] c = "X" -> "x"
    [] c = "L" -> "l"
    [] c = "S" -> "s"
    [] OTHER -> c

lower(s) == [i \in 1..Len(s) |-> lowerChar(s[i])]

RECURSIVE lstrip(_)
lstrip(s) == IF s # <<>> /\ isspace(Head(s)) THEN lstrip(Tail(s)) ELSE s

RECURSIVE rstrip(_)
rstrip(s) ==
  IF s # <<>> /\ isspace(s[Len(s)]) THEN rstrip(SubSeq(s, 1, Len(s) - 1)) ELSE s

\* str.strip()
strip(s) == rstrip(lstrip(s))

\* s.endswith(suffix)
endswith(s, suffix) ==
  /\ Len(suffix) <= Len(s)
  /\ SubSeq(s, Len(s) - Len(suffix) + 1, Len(s)) = suffix

\* ------------------------------------------------------------- cell values
\* A cell of a dataframe: a NaN, a None, a string or a number.
NaN == [kind |-> "nan", s |-> <<>>, n |-> 0]
None == [kind |-> "none", s |-> <<>>, n |-> 0]
StrCell(s) == [kind |-> "str", s |-> s, n |-> 0]
NumCell(n) == [kind |-> "num", s |-> <<>>, n |-> n]

\* pd.isna(v)
isna(v) == v.kind \in {"nan", "none"}

DigitOf(d) ==
  CASE d = 0 -> "0" [] d = 1 -> "1" [] d = 2 -> "2" [] d = 3 -> "3"
    [] d = 4 -> "4" [] d = 5 -> "5" [] d = 6 -> "6" [] d = 7 -> "7"
    [] d = 8 -> "8" [] d = 9 -> "9"

RECURSIVE Digits(_)
Digits(n) == IF n < 10 THEN <<DigitOf(n)>> ELSE Digits(n \div 10) \o <<DigitOf(n % 10)>>

\* str(v) of a cell that is not missing
str(v) == IF v.kind = "num" THEN Digits(v.n) ELSE v.s


\* --------------------------------------------------------- process state
VARIABLES
  weights,             \* the pretrained weights: the embedding of each text
  modelCache,          \* st.cache_resource of get_model: NoModel or an instance
  constructions,       \* SentenceTransformer instances constructed so far
  getModelCalls,       \* get_model() calls so far
  constructedAt,       \* the get_model() call that constructed the instance
  failedLoads,         \* get_model() calls that raised
  lastCall,            \* the last calculate_similarity call and its result
  uploaded_file,       \* st.file_uploader's value
  button,              \* "Calculate Similarity Scores" pressed
  df,                  \* the dataframe given to process_excel_file
  col1,                \* first compared column
  col2,                \* second compared column
  pc,                  \* position of the request
  processed_df,        \* the dataframe process_excel_file returns
  similarity_scores,   \* the score list process_excel_file returns
  rowCalls,            \* the calculate_similarity call of each row
  shown,               \* st.error / st.warning messages displayed
  parsed,              \* pd.read_excel was called
  text,                \* the argument of preprocess_text
  normalized           \* the result of preprocess_text

procVars == <<weights, modelCache, constructions, getModelCalls, constructedAt, failedLoads>>
reqVars == <<uploaded_file, button, df, col1, col2, pc, processed_df, similarity_scores,
             rowCalls, shown, parsed>>
preVars == <<text, normalized>>
vars == <<procVars, lastCall, reqVars, preVars>>

\* ------------------------------------------------------- embedding model
NoModel == 0
One == 2 * Norm * Norm
NoScore == 0 - 1

Vectors ==
  {v \in (0 - Norm .. Norm) \X (0 - Norm .. Norm) : v[1] * v[1] + v[2] * v[2] = Norm * Norm}

\* The texts that reach the encoder: the stripped forms of the non-missing cells.
EncStrings == {<<"a">>, <<"7">>}

\* The cosine depends on the angle between two embeddings only, so the embedding
\* of the first text is fixed and the other ranges over every direction.
Weights == {w \in [EncStrings -> Vectors] : w[<<"a">>] = <<Norm, 0>>}

Proc == [modelCache |-> modelCache, constructions |-> constructions,
         getModelCalls |-> getModelCalls, constructedAt |-> constructedAt,
         failedLoads |-> failedLoads]

InitProc ==
  /\ weights \in Weights
  /\ modelCache = NoModel
  /\ constructions = 0
  /\ getModelCalls = 0
  /\ constructedAt = 0
  /\ failedLoads = 0

\* What the encoder does in one computation: whether constructing the model
\* succeeds (read only when the cache is empty) and which step raises, if any.
Outcomes == [load : BOOLEAN, fail : {"none", "encode1", "encode2"}]
NoOutcome == [load |-> TRUE, fail |-> "none"]

\* get_model() without st.cache_resource: every call constructs an instance.
GetModelUncached(p, loadOk) ==
  IF loadOk
  THEN [ok |-> TRUE,
        proc |-> [p EXCEPT !.getModelCalls = @ + 1,
                           !.modelCache = p.constructions + 1,
                           !.constructions = @ + 1,
                           !.constructedAt = p.getModelCalls + 1]]
  ELSE [ok |-> FALSE,
        proc |-> [p EXCEPT !.getModelCalls = @ + 1, !.failedLoads = @ + 1]]

\* @st.cache_resource get_model(): the cached instance, or a new one that is
\* cached when SentenceTransformer(...) returns; an exception caches nothing.
GetModel(p, loadOk) ==
  IF p.modelCache # NoModel
  THEN [ok |-> TRUE, proc |-> [p EXCEPT !.getModelCalls = @ + 1]]
  ELSE IF loadOk
  THEN [ok |-> TRUE,
        proc |-> [p EXCEPT !.getModelCalls = @ + 1,
                           !.modelCache = p.constructions + 1,
                           !.constructions = @ + 1,
                           !.constructedAt = p.getModelCalls + 1]]
  ELSE [ok |-> FALSE,
        proc |-> [p EXCEPT !.getModelCalls = @ + 1, !.failedLoads = @ + 1]]

\* model.encode(s, convert_to_tensor=True)
Encode(w, s) == w[s]

Dot(e1, e2) == e1[1] * e2[1] + e1[2] * e2[2]

\* A sign error in the cosine.
CosSimNegated(e1, e2) == 0 - Dot(e1, e2)

\* util.pytorch_cos_sim(e1, e2).item(), as a numerator over Norm * Norm
CosSim(e1, e2) == Dot(e1, e2)

\* The cosine returned as it is, not rescaled.
NormalizeNoShift(c) == 2 * c

\* (similarity + 1) / 2, as a numerator over One
Normalize(c) == c + Norm * Norm

\* ------------------------------------------------- calculate_similarity
Return(score, p) ==
  [score |-> score, error |-> FALSE, raised |-> FALSE, failed |-> FALSE,
   reached |-> FALSE, model |-> NoModel, proc |-> p]

\* No except clause: the exception leaves calculate_similarity.
OnExceptionPropagate(p) ==
  [score |-> NoScore, error |-> FALSE, raised |-> TRUE, failed |-> TRUE,
   reached |-> TRUE, model |-> p.modelCache, proc |-> p]

\* except Exception: st.error(...); return 0.0
OnException(p) ==
  [score |-> 0, error |-> TRUE, raised |-> FALSE, failed |-> TRUE,
   reached |-> TRUE, model |-> p.modelCache, proc |-> p]

\* The try block.
TryEncode(s1, s2, p, o, w) ==
  LET g == GetModel(p, o.load) IN
  IF ~g.ok \/ o.fail # "none"
  THEN OnException(g.proc)
  ELSE [score |-> Normalize(CosSim(Encode(w, s1), Encode(w, s2))),
        error |-> FALSE, raised |-> FALSE, failed |-> FALSE,
        reached |-> TRUE, model |-> g.proc.modelCache, proc |-> g.proc]

\* The empty-string checks with the results exchanged.
EmptyPolicySwapped(s1, s2) ==
  IF s1 = <<>> /\ s2 = <<>> THEN "zero"
  ELSE IF s1 = <<>> \/ s2 = <<>> THEN "one"
  ELSE "encode"

\* if not str1 and not str2: return 1.0; if not str1 or not str2: return 0.0
EmptyPolicy(s1, s2) ==
  IF s1 = <<>> /\ s2 = <<>> THEN "one"
  ELSE IF s1 = <<>> \/ s2 = <<>> THEN "zero"
  ELSE "encode"

calculate_similarity(v1, v2, p, o, w) ==
  IF isna(v1) \/ isna(v2)
  THEN Return(0, p)
  ELSE LET str1 == strip(str(v1))
           str2 == strip(str(v2))
           policy == EmptyPolicy(str1, str2)
       IN  CASE policy = "one" -> Return(One, p)
             [] policy = "zero" -> Return(0, p)
             [] OTHER -> TryEncode(str1, str2, p, o, w)

\* Whether the pair reaches the try block.
ReachesEncoder(v1, v2) ==
  /\ ~isna(v1) /\ ~isna(v2)
  /\ strip(str(v1)) # <<>> /\ strip(str(v2)) # <<>>

\* The outcomes that differ for the pair and the cache.
OutcomesFor(v1, v2, p) ==
  IF ~ReachesEncoder(v1, v2) THEN {NoOutcome}
  ELSE IF p.modelCache # NoModel THEN {o \in Outcomes : o.load}
  ELSE {o \in Outcomes : o.load \/ o.fail = "none"}


\* ------------------------------------------------------------- datasets
\* A dataframe: its column names and its rows in order, each row a function
\* from the column names to cells.
EmptyFrame == [cols |-> {}, rows |-> <<>>]

NoFile == [name |-> <<>>, given |-> FALSE, readable |-> FALSE, frame |-> EmptyFrame]

\* No request and no preprocess_text call in flight.
IdleRequest ==
  /\ uploaded_file = NoFile
  /\ button = FALSE
  /\ df = EmptyFrame
  /\ col1 = ""
  /\ col2 = ""
  /\ pc = "idle"
  /\ processed_df = EmptyFrame
  /\ similarity_scores = <<>>
  /\ rowCalls = <<>>
  /\ shown = <<>>
  /\ parsed = FALSE

IdlePreprocess ==
  /\ text = NaN
  /\ normalized = <<>>

\* ------------------------------------- a sequence of similarity computations
SimCells ==
  {NaN, None, StrCell(<<>>), StrCell(<<" ">>), StrCell(<<"a">>),
   StrCell(<<" ", "a", "\t">>), NumCell(7)}

CallRecord(v1, v2, o, r) ==
  [str1 |-> v1, str2 |-> v2, outcome |-> o, score |-> r.score, error |-> r.error,
   raised |-> r.raised, failed |-> r.failed, reached |-> r.reached,
   model |-> r.model, cacheBefore |-> modelCache]

SetProc(p) ==
  /\ modelCache' = p.modelCache
  /\ constructions' = p.constructions
  /\ getModelCalls' = p.getModelCalls
  /\ constructedAt' = p.constructedAt
  /\ failedLoads' = p.failedLoads
  /\ UNCHANGED weights

\* One call calculate_similarity(v1, v2).
Compute(v1, v2, o) ==
  /\ ReachesEncoder(v1, v2) => getModelCalls < MaxCalls
  /\ LET r == calculate_similarity(v1, v2, Proc, o, weights) IN
       /\ lastCall' = <<CallRecord(v1, v2, o, r)>>
       /\ SetProc(r.proc)
  /\ UNCHANGED <<reqVars, preVars>>

InitSim == InitProc /\ lastCall = <<>> /\ IdleRequest /\ IdlePreprocess

NextSim ==
  \E v1 \in SimCells, v2 \in SimCells :
    \E o \in OutcomesFor(v1, v2, Proc) : Compute(v1, v2, o)

SpecSim == InitSim /\ [][NextSim]_vars


\* ------------------------------------------- claims on calculate_similarity
\* A value is missing: a NaN or None marker, or a string empty once stripped.
Missing(v) == isna(v) \/ strip(str(v)) = <<>>

\* C1: whatever the two cell values and whatever the encoder does (any cosine,
\* or a failure while loading or encoding), calculate_similarity returns a
\* score between 0.0 and 1.0.
C1_ScoreInUnitInterval ==
  \A i \in DOMAIN lastCall :
    /\ ~lastCall[i].raised
    /\ 0 <= lastCall[i].score /\ lastCall[i].score <= One

\* C1 witness: an encoded pair whose cosine is strictly between -1 and 0.
C1_Witness ==
  \E i \in DOMAIN lastCall :
    /\ lastCall[i].reached /\ ~lastCall[i].failed
    /\ 0 < lastCall[i].score /\ lastCall[i].score < Norm * Norm

\* C2: when exactly one of the two values is missing, in either position, the
\* score is 0.0.
C2_OneMissingIsZero ==
  \A i \in DOMAIN lastCall :
    Missing(lastCall[i].str1) # Missing(lastCall[i].str2) => lastCall[i].score = 0

\* C2 witness: a present first value against a whitespace-only second value.
C2_Witness ==
  \E i \in DOMAIN lastCall :
    /\ lastCall[i].str1 = NumCell(7)
    /\ lastCall[i].str2 = StrCell(<<" ">>)
    /\ lastCall[i].score = 0

\* C3: two calls whose values are both missing return the same score, whichever
\* kind of missing value each holds.
C3_BothMissingOneConstant ==
  [][\A i \in DOMAIN lastCall, j \in DOMAIN lastCall' :
       ( /\ Missing(lastCall[i].str1) /\ Missing(lastCall[i].str2)
         /\ Missing(lastCall'[j].str1) /\ Missing(lastCall'[j].str2) )
       => lastCall'[j].score = lastCall[i].score]_vars

C9_ConstructedByFirstReacher ==
  /\ constructions <= 1
  /\ getModelCalls = 0 => modelCache = NoModel
  /\ constructions >= 1 => constructedAt = 1
  /\ \A i \in DOMAIN lastCall :
       (lastCall[i].reached /\ getModelCalls >= 2 /\ constructions >= 1)
         => lastCall[i].cacheBefore # NoModel /\ lastCall[i].model = lastCall[i].cacheBefore

\* C9 amended: the model is constructed at most once, lazily, by the first
\* computation that reaches the encoder and whose load succeeds (every get_model
\* call before it raised and cached nothing); every computation after that
\* reuses the cached instance, which is never replaced or torn down.
C9_ConstructedOnceThenReused ==
  /\ constructions <= 1
  /\ getModelCalls = 0 => modelCache = NoModel
  /\ modelCache = NoModel <=> constructions = 0
  /\ modelCache = NoModel => failedLoads = getModelCalls
  /\ modelCache # NoModel => modelCache = 1 /\ constructedAt = failedLoads + 1
  /\ \A i \in DOMAIN lastCall :
       (lastCall[i].reached /\ lastCall[i].cacheBefore # NoModel)
         => /\ lastCall[i].model = lastCall[i].cacheBefore
            /\ modelCache = lastCall[i].cacheBefore

\* C9 witness: a failed load, then the constructing call, then a call that
\* reuses the instance.
C9_Witness ==
  /\ failedLoads = 1 /\ constructedAt = 2 /\ getModelCalls = 3
  /\ \E i \in DOMAIN lastCall :
       lastCall[i].reached /\ lastCall[i].cacheBefore = 1 /\ lastCall[i].model = 1


\* ---------------------------------------------------- process_excel_file
new_col_name == "Similarity_Score"

\* A cell holding a score.
ScoreCell(x) == [kind |-> "float", s |-> <<>>, n |-> x]

\* zip(df[col1], df[col1]): the first column paired with itself.
ZipColumnsSame(d, c1, c2) == [i \in 1..Len(d.rows) |-> <<d.rows[i][c1], d.rows[i][c1]>>]

\* zip(df[col1], df[col2])
ZipColumns(d, c1, c2) == [i \in 1..Len(d.rows) |-> <<d.rows[i][c1], d.rows[i][c2]>>]

\* A new frame holding the score column alone.
SetColumnAlone(d, name, vals) ==
  [cols |-> {name},
   rows |-> [i \in 1..Len(d.rows) |-> [c \in {name} |-> ScoreCell(vals[i])]]]

\* df[name] = vals
SetColumn(d, name, vals) ==
  [cols |-> d.cols \cup {name},
   rows |-> [i \in 1..Len(d.rows) |->
              [c \in d.cols \cup {name} |->
                IF c = name THEN ScoreCell(vals[i]) ELSE d.rows[i][c]]]]

RowCall(pair, o, r, before) ==
  [str1 |-> pair[1], str2 |-> pair[2], outcome |-> o, score |-> r.score, error |-> r.error,
   raised |-> r.raised, failed |-> r.failed, reached |-> r.reached,
   model |-> r.model, cacheBefore |-> before]

\* The list comprehension: every way the calls on the pairs, in order, can go.
\* A call that raises ends the comprehension.
RECURSIVE Runs(_, _, _)
Runs(pairs, p, w) ==
  IF pairs = <<>>
  THEN {[calls |-> <<>>, proc |-> p, raised |-> FALSE]}
  ELSE UNION {
         LET r == calculate_similarity(Head(pairs)[1], Head(pairs)[2], p, o, w)
             call == RowCall(Head(pairs), o, r, p.modelCache)
         IN  IF r.raised
             THEN {[calls |-> <<call>>, proc |-> r.proc, raised |-> TRUE]}
             ELSE {[calls |-> <<call>> \o rest.calls, proc |-> rest.proc,
                    raised |-> rest.raised] : rest \in Runs(Tail(pairs), r.proc, w)}
         : o \in OutcomesFor(Head(pairs)[1], Head(pairs)[2], p)}

ErrorsOf(calls) ==
  LET failedAt == {i \in DOMAIN calls : calls[i].error}
      RECURSIVE Msgs(_)
      Msgs(i) == IF i > Len(calls) THEN <<>>
                 ELSE (IF i \in failedAt
                       THEN <<[level |-> "error", msg |-> "Error calculating similarity"]>>
                       ELSE <<>>) \o Msgs(i + 1)
  IN  Msgs(1)

\* df[new_col_name] = similarity_scores; return df, similarity_scores
\* (nothing is returned when a call raised).
ProcessRun(d, run) ==
  IF run.raised
  THEN /\ processed_df' = EmptyFrame
       /\ similarity_scores' = <<>>
  ELSE LET scores == [i \in 1..Len(run.calls) |-> run.calls[i].score] IN
       /\ similarity_scores' = scores
       /\ processed_df' = SetColumn(d, new_col_name, scores)

\* One call process_excel_file(df, col1, col2).
ProcessExcelFile ==
  /\ pc = "call"
  /\ \E run \in Runs(ZipColumns(df, col1, col2), Proc, weights) :
       /\ ProcessRun(df, run)
       /\ pc' = IF run.raised THEN "raised" ELSE "done"
       /\ rowCalls' = run.calls
       /\ shown' = ErrorsOf(run.calls)
       /\ SetProc(run.proc)
  /\ UNCHANGED <<lastCall, uploaded_file, button, df, col1, col2, parsed, preVars>>

BatchCells == {NaN, StrCell(<<" ">>), StrCell(<<" ", "a">>), NumCell(7)}

FramesOver(colsets, cells, maxRows) ==
  UNION {{[cols |-> cs, rows |-> r] :
            r \in UNION {[1..n -> [cs -> cells]] : n \in 0..maxRows}} : cs \in colsets}

BatchFrames == FramesOver({{"A", "B"}, {"A", new_col_name}}, BatchCells, MaxRows)

\* The two columns differ: main turns an equal pair down before the call
\* (main.py, "Please select different columns for comparison").
InitBatch ==
  /\ InitProc
  /\ lastCall = <<>>
  /\ IdlePreprocess
  /\ uploaded_file = NoFile
  /\ button = FALSE
  /\ df \in BatchFrames
  /\ col1 \in df.cols
  /\ col2 \in df.cols \ {col1}
  /\ pc = "call"
  /\ processed_df = EmptyFrame
  /\ similarity_scores = <<>>
  /\ rowCalls = <<>>
  /\ shown = <<>>
  /\ parsed = FALSE

NextBatch == ProcessExcelFile

SpecBatch == InitBatch /\ [][NextBatch]_vars


\* ------------------------------------------- claims on process_excel_file
\* calculate_similarity(v1, v2) when the cache holds `cache` and the encoder
\* does `o`.
ScoreOf(v1, v2, cache, o, w) ==
  calculate_similarity(v1, v2,
    [modelCache |-> cache, constructions |-> 0, getModelCalls |-> 0,
     constructedAt |-> 0, failedLoads |-> 0], o, w).score

\* C4: a failure while obtaining the model or encoding a pair is caught inside
\* calculate_similarity: that row scores 0.0, one error is displayed for it,
\* nothing is raised to the caller, and the batch yields one score per row.
C4_FailureIsCaughtPerRow ==
  /\ pc # "raised"
  /\ pc = "done" =>
       /\ Len(similarity_scores) = Len(df.rows)
       /\ Len(rowCalls) = Len(df.rows)
       /\ \A i \in DOMAIN rowCalls :
            /\ ~rowCalls[i].raised
            /\ rowCalls[i].failed => (similarity_scores[i] = 0 /\ rowCalls[i].error)
       /\ Len(shown) = Cardinality({i \in DOMAIN rowCalls : rowCalls[i].failed})
       /\ \A k \in DOMAIN shown : shown[k].level = "error"

\* C4 witness: the first row's encoding fails and the second row is still
\* scored, above 0.0.
C4_Witness ==
  /\ pc = "done"
  /\ Len(rowCalls) = 2
  /\ rowCalls[1].failed /\ similarity_scores[1] = 0
  /\ rowCalls[2].reached /\ ~rowCalls[2].failed /\ similarity_scores[2] > 0
  /\ Len(shown) = 1

\* C5: for every dataset, the empty one included, and every two existing
\* columns, the score list is as long as the dataset, the rows keep their
\* number and order, and the i-th score and the i-th Similarity_Score value
\* are calculate_similarity of the i-th row's two values.
C5_ScoresAlignWithRows ==
  /\ (pc = "call" /\ df.rows = <<>>) => ENABLED ProcessExcelFile
  /\ pc = "done" =>
       /\ Len(similarity_scores) = Len(df.rows)
       /\ Len(processed_df.rows) = Len(df.rows)
       /\ \A i \in DOMAIN df.rows :
            /\ rowCalls[i].str1 = df.rows[i][col1]
            /\ rowCalls[i].str2 = df.rows[i][col2]
            /\ similarity_scores[i] = rowCalls[i].score
            /\ similarity_scores[i] =
                 ScoreOf(df.rows[i][col1], df.rows[i][col2], rowCalls[i].cacheBefore,
                         rowCalls[i].outcome, weights)
            /\ processed_df.rows[i][new_col_name] = ScoreCell(similarity_scores[i])
            /\ \A c \in df.cols \ {new_col_name} : processed_df.rows[i][c] = df.rows[i][c]

\* C5 witness: two rows whose scores differ, each on its own row.
C5_Witness ==
  /\ pc = "done"
  /\ col1 = "A" /\ col2 = "B"
  /\ Len(df.rows) = 2
  /\ df.rows[1]["A"] = NaN
  /\ df.rows[2]["A"] = NumCell(7) /\ df.rows[2]["B"] = StrCell(<<" ", "a">>)
  /\ similarity_scores[1] = 0
  /\ similarity_scores[2] > 0
  /\ processed_df.rows[2][new_col_name] = ScoreCell(similarity_scores[2])

\* C8: process_excel_file changes the Similarity_Score column only: it holds the
\* score list afterwards, replacing a column of that name (whose original values
\* are the ones scored when it is a compared column), and every other column of
\* every row keeps its value.
C8_OnlyScoreColumnChanges ==
  pc = "done" =>
    /\ processed_df.cols = df.cols \cup {new_col_name}
    /\ Len(processed_df.rows) = Len(df.rows)
    /\ \A i \in DOMAIN df.rows :
         /\ DOMAIN processed_df.rows[i] = processed_df.cols
         /\ processed_df.rows[i][new_col_name] = ScoreCell(similarity_scores[i])
         /\ \A c \in df.cols \ {new_col_name} : processed_df.rows[i][c] = df.rows[i][c]
         /\ rowCalls[i].str1 = df.rows[i][col1]
         /\ rowCalls[i].str2 = df.rows[i][col2]

\* C8 witness: the Similarity_Score column exists, is the second compared
\* column, and its old value is scored and then replaced.
C8_Witness ==
  /\ pc = "done"
  /\ col1 = "A" /\ col2 = new_col_name
  /\ Len(df.rows) = 1
  /\ df.rows[1][new_col_name] = NumCell(7)
  /\ df.rows[1]["A"] = StrCell(<<" ", "a">>)
  /\ rowCalls[1].str2 = NumCell(7)
  /\ ~rowCalls[1].failed
  /\ processed_df.rows[1][new_col_name] = ScoreCell(similarity_scores[1])
  /\ processed_df.rows[1]["A"] = StrCell(<<" ", "a">>)


\* --------------------------------------------------- the upload flow (main)
\* uploaded_file.name.endswith(('.xlsx', '.xls'))
HasExcelSuffix(name) ==
  \/ endswith(name, <<".", "x", "l", "s", "x">>)
  \/ endswith(name, <<".", "x", "l", "s">>)

validate_file_upload(f) ==
  IF ~f.given
  THEN [valid |-> FALSE, message |-> "Please upload an Excel file"]
  ELSE IF ~HasExcelSuffix(f.name)
  THEN [valid |-> FALSE, message |-> "Please upload a valid Excel file (.xlsx or .xls)"]
  ELSE [valid |-> TRUE, message |-> "File validated successfully"]

Error(m) == [level |-> "error", msg |-> m]
Warning(m) == [level |-> "warning", msg |-> m]

KeepRequest == UNCHANGED <<uploaded_file, button, col1, col2>>
NoScoring ==
  /\ processed_df' = EmptyFrame
  /\ similarity_scores' = <<>>
  /\ rowCalls' = <<>>
  /\ UNCHANGED procVars

\* main() with no file in the uploader: the page is drawn and nothing else.
MainNoFile ==
  /\ pc = "request"
  /\ ~uploaded_file.given
  /\ pc' = "page"
  /\ shown' = <<>>
  /\ UNCHANGED <<df, parsed>>
  /\ NoScoring /\ KeepRequest
  /\ UNCHANGED <<lastCall, preVars>>

\* main() with a file that validate_file_upload turns down.
MainInvalid ==
  /\ pc = "request"
  /\ uploaded_file.given
  /\ ~validate_file_upload(uploaded_file).valid
  /\ pc' = "rejected"
  /\ shown' = <<Error(validate_file_upload(uploaded_file).message)>>
  /\ UNCHANGED <<df, parsed>>
  /\ NoScoring /\ KeepRequest
  /\ UNCHANGED <<lastCall, preVars>>

\* main() when pd.read_excel raises.
MainParseError ==
  /\ pc = "request"
  /\ uploaded_file.given
  /\ validate_file_upload(uploaded_file).valid
  /\ ~uploaded_file.readable
  /\ pc' = "parse_error"
  /\ parsed' = TRUE
  /\ shown' = <<Error("An error occurred")>>
  /\ UNCHANGED df
  /\ NoScoring /\ KeepRequest
  /\ UNCHANGED <<lastCall, preVars>>

Parses ==
  /\ pc = "request"
  /\ uploaded_file.given
  /\ validate_file_upload(uploaded_file).valid
  /\ uploaded_file.readable

\* main() with the button not pressed: the preview and the two selectors.
MainPreview ==
  /\ Parses
  /\ ~button
  /\ pc' = "preview"
  /\ parsed' = TRUE
  /\ df' = uploaded_file.frame
  /\ shown' = <<>>
  /\ NoScoring /\ KeepRequest
  /\ UNCHANGED <<lastCall, preVars>>

\* main() with the button pressed on one column chosen twice.
MainSameColumns ==
  /\ Parses
  /\ button
  /\ col1 = col2
  /\ pc' = "warned"
  /\ parsed' = TRUE
  /\ df' = uploaded_file.frame
  /\ shown' = <<Warning("Please select different columns for comparison")>>
  /\ NoScoring /\ KeepRequest
  /\ UNCHANGED <<lastCall, preVars>>

\* main() with the button pressed on two columns: process_excel_file on a copy,
\* then the statistics, which raise on an empty score list (np.min of no
\* elements); the outer except displays what is raised.
MainProcess ==
  /\ Parses
  /\ button
  /\ col1 # col2
  /\ parsed' = TRUE
  /\ df' = uploaded_file.frame
  /\ \E run \in Runs(ZipColumns(uploaded_file.frame, col1, col2), Proc, weights) :
       /\ ProcessRun(uploaded_file.frame, run)
       /\ rowCalls' = run.calls
       /\ SetProc(run.proc)
       /\ pc' = IF run.raised THEN "scoring_error"
                ELSE IF run.calls = <<>> THEN "stats_error"
                ELSE "results"
       /\ shown' = ErrorsOf(run.calls) \o
                     (IF run.raised \/ run.calls = <<>>
                      THEN <<Error("An error occurred")>> ELSE <<>>)
  /\ KeepRequest
  /\ UNCHANGED <<lastCall, preVars>>

Names ==
  {<<"a", ".", "x", "l", "s", "x">>, <<"a", ".", "x", "l", "s">>, <<".", "x", "l", "s">>,
   <<"a", ".", "c", "s", "v">>, <<"a", ".", "X", "L", "S">>, <<"x", "l", "s", "x">>}

MainCells == {StrCell(<<" ", "a">>), NumCell(7)}

MainFrames == FramesOver({{"A", "B"}}, MainCells, MaxRows)

Files ==
  {[name |-> nm, given |-> TRUE, readable |-> TRUE, frame |-> fr] :
     nm \in Names, fr \in MainFrames}
  \cup {[name |-> nm, given |-> TRUE, readable |-> FALSE, frame |-> EmptyFrame] : nm \in Names}

\* The selectors and the button exist once a file has been parsed.
HasWidgets(f) == f.given /\ validate_file_upload(f).valid /\ f.readable

InitMain ==
  /\ InitProc
  /\ lastCall = <<>>
  /\ IdlePreprocess
  /\ uploaded_file \in {NoFile} \cup Files
  /\ button \in (IF HasWidgets(uploaded_file) THEN BOOLEAN ELSE {FALSE})
  /\ col1 \in (IF HasWidgets(uploaded_file) THEN uploaded_file.frame.cols ELSE {""})
  /\ col2 \in (IF HasWidgets(uploaded_file) THEN uploaded_file.frame.cols ELSE {""})
  /\ df = EmptyFrame
  /\ pc = "request"
  /\ processed_df = EmptyFrame
  /\ similarity_scores = <<>>
  /\ rowCalls = <<>>
  /\ shown = <<>>
  /\ parsed = FALSE

NextMain ==
  \/ MainNoFile
  \/ MainInvalid
  \/ MainParseError
  \/ MainPreview
  \/ MainSameColumns
  \/ MainProcess

SpecMain == InitMain /\ [][NextMain]_vars

\* C6: a request with no file, or with a filename whose extension is neither
\* .xlsx nor .xls, is rejected with a displayed reason and is neither parsed nor
\* scored; every other file goes on to parsing.
C6_RejectedWithReasonBeforeProcessing ==
  pc # "request" =>
    IF ~uploaded_file.given \/ ~HasExcelSuffix(uploaded_file.name)
    THEN /\ Len(shown) = 1 /\ shown[1].level = "error"
         /\ ~parsed
         /\ rowCalls = <<>> /\ pc \notin {"results", "stats_error", "scoring_error"}
    ELSE parsed

\* ------------------------------------------------------- preprocess_text
\* text.split(): the maximal runs of characters that are not whitespace
RECURSIVE split(_)
split(s) ==
  LET t == lstrip(s) IN
  IF t = <<>> THEN <<>>
  ELSE LET k == CHOOSE j \in 1..Len(t) :
                  /\ \A i \in 1..j : ~isspace(t[i])
                  /\ j = Len(t) \/ isspace(t[j + 1])
       IN  <<SubSeq(t, 1, k)>> \o split(SubSeq(t, k + 1, Len(t)))

\* ' '.join(words)
RECURSIVE join(_)
join(words) ==
  IF words = <<>> THEN <<>>
  ELSE IF Len(words) = 1 THEN words[1]
  ELSE words[1] \o <<" ">> \o join(Tail(words))

\* ''.join(char for char in s if char.isalnum() or char.isspace())
KeepAlnumSpace(s) == SelectSeq(s, LAMBDA c : isalnum(c) \/ isspace(c))

preprocess_text(v) ==
  IF isna(v) THEN <<>>
  ELSE strip(KeepAlnumSpace(join(split(lower(str(v))))))

\* One call preprocess_text(text).
PreprocessText ==
  /\ pc = "call"
  /\ normalized' = preprocess_text(text)
  /\ pc' = "done"
  /\ UNCHANGED <<procVars, lastCall, text, uploaded_file, button, df, col1, col2,
                 processed_df, similarity_scores, rowCalls, shown, parsed>>

PreAlphabet == {"a", "B", " ", "\t", "!"}

PreInputs ==
  {NaN, None, NumCell(7)}
  \cup {StrCell(s) : s \in UNION {[1..n -> PreAlphabet] : n \in 0..MaxLen}}

InitPre ==
  /\ InitProc
  /\ lastCall = <<>>
  /\ uploaded_file = NoFile
  /\ button = FALSE
  /\ df = EmptyFrame
  /\ col1 = ""
  /\ col2 = ""
  /\ pc = "call"
  /\ processed_df = EmptyFrame
  /\ similarity_scores = <<>>
  /\ rowCalls = <<>>
  /\ shown = <<>>
  /\ parsed = FALSE
  /\ text \in PreInputs
  /\ normalized = <<>>

NextPre == PreprocessText

SpecPre == InitPre /\ [][NextPre]_vars

\* C10: the result of preprocess_text is lowercase, holds alphanumeric
\* characters and whitespace only, has no whitespace at either end, and every
\* run of whitespace inside it is one space; a missing input gives "".
C10_ResultIsNormalForm ==
  pc = "done" =>
    /\ \A i \in DOMAIN normalized :
         /\ normalized[i] \notin Upper
         /\ isalnum(normalized[i]) \/ isspace(normalized[i])
         /\ isspace(normalized[i]) => normalized[i] = " "
    /\ normalized # <<>> => ~isspace(normalized[1]) /\ ~isspace(normalized[Len(normalized)])
    /\ \A i \in 1..(Len(normalized) - 1) : ~(isspace(normalized[i]) /\ isspace(normalized[i + 1]))
    /\ isna(text) => normalized = <<>>

=============================================================================
